---- MODULE Spec2Model ----
(***************************************************************************)
(* A model of proxy_checker.py: the ProxyChecker object, the probe         *)
(* coroutine check_proxy, the semaphore-gated batch check_proxies and the  *)
(* ranker get_best_proxies / save_working_proxies, the list fetcher        *)
(* fetch_proxy_lists, the dump save_all_unique_proxies and main.           *)
(*                                                                         *)
(* asyncio runs the code between two awaits without interruption, so each  *)
(* action below is the code from one suspension point to the next.         *)
(* A candidate string is a sequence of tokens: a scheme prefix, a host, or *)
(* a blank; str.strip, str.lower, str.startswith and `in` act on tokens.   *)
(***************************************************************************)
EXTENDS Integers, Sequences, FiniteSets

VARIABLES
    timeout,        \* self.timeout, in clock ticks
    results,        \* self.results
    checked_count,  \* self.checked_count
    total_count,    \* self.total_count
    proxies,        \* the list passed to check_proxies
    max_concurrent, \* the cap passed to check_proxies
    semaphore,      \* the value of the asyncio.Semaphore of the batch
    tasks,          \* the probe coroutines, in creation order
    pc,             \* where the caller of check_proxies is
    now,            \* time.time()
    stdout_ok,      \* whether print to sys.stdout succeeds
    call,           \* the arguments of the last get_best_proxies call
    best,           \* the value last returned by get_best_proxies
    output_file,    \* the lines written by save_working_proxies
    progress_out,   \* the checked_count values update_progress has printed
    fetch_pc,       \* where the caller of fetch_proxy_lists is
    fetches,        \* the fetch_single_list coroutines, in creation order
    fetched,        \* the value fetch_proxy_lists returned
    just_proxy,     \* just_proxy.txt: <<>>, or once written <<d>>, d.lines
                    \* the lines and d.proxies the list they were made from
    links_txt,      \* the file links.txt as open() finds it
    main_pc,        \* where main is
    exit_status     \* <<>> while the process runs, <<code>> once it has exited

vars == <<timeout, results, checked_count, total_count, proxies, max_concurrent,
          semaphore, tasks, pc, now, stdout_ok, call, best, output_file,
          progress_out, fetch_pc, fetches, fetched, just_proxy, links_txt,
          main_pc, exit_status>>

fetch_vars == <<fetch_pc, fetches, fetched>>
main_vars == <<links_txt, main_pc, exit_status>>

checker_vars == <<timeout, results, checked_count, total_count>>
batch_vars == <<proxies, max_concurrent, semaphore, tasks, pc>>
ranker_vars == <<call, best, output_file>>

----------------------------------------------------------------------------
(* Bounds of the model *)

MaxProxies == 2
MaxConcurrent == 2
MaxTime == 1
MaxResults == 3
MaxLimit == 3
MaxUrls == 2

(* ProxyChecker.__init__, timeout: float = 1.0; a clock tick is one second *)
Timeout == 1

(* float('inf'): the speed of a proxy that does not work.  Measured speeds
   are differences of clock readings and are never negative here. *)
Inf == -1

----------------------------------------------------------------------------
(* Candidate strings *)

Blank == " "

Candidates ==
    { <<"h1">>, <<Blank>>, <<"socks5://", "h2">> }

RECURSIVE LStrip(_)
LStrip(s) ==
    IF s # <<>> /\ Head(s) = Blank THEN LStrip(Tail(s)) ELSE s

RECURSIVE RStrip(_)
RStrip(s) ==
    IF s # <<>> /\ s[Len(s)] = Blank THEN RStrip(SubSeq(s, 1, Len(s) - 1)) ELSE s

Strip(s) == RStrip(LStrip(s))

(* str.lower on one token *)
Lower(tok) ==
    CASE tok = "SOCKS4://" -> "socks4://"
      [] tok = "SOCKS5://" -> "socks5://"
      [] tok = "HTTP://"   -> "http://"
      [] OTHER             -> tok

(* sub in s.lower() *)
InLower(sub, s) == \E k \in 1..Len(s) : Lower(s[k]) = sub

(* s.startswith(('http://', 'socks4://', 'socks5://')) *)
StartsWithScheme(s) ==
    s # <<>> /\ s[1] \in {"http://", "socks4://", "socks5://"}

(* check_proxy, the protocol tag *)
ProtocolOf(proxy) ==
    IF InLower("socks4://", proxy) THEN "socks4"
    ELSE IF InLower("socks5://", proxy) THEN "socks5"
    ELSE "http"

(* check_proxy, the address that is probed and recorded *)
NormalizeProxy(proxy) ==
    IF StartsWithScheme(proxy) THEN proxy ELSE <<"http://">> \o proxy

----------------------------------------------------------------------------
(* Values a probe task ends with *)

ProxyStats(url, speed, protocol, last_checked, is_working) ==
    [type |-> "ProxyStats", url |-> url, speed |-> speed, protocol |-> protocol,
     last_checked |-> last_checked, is_working |-> is_working]

(* an exception object, as asyncio.gather(return_exceptions=True) returns it *)
ExceptionObject(name) ==
    [type |-> name, url |-> <<>>, speed |-> Inf, protocol |-> "",
     last_checked |-> 0, is_working |-> FALSE]

None == ExceptionObject("None")

IsInstanceProxyStats(r) == r.type = "ProxyStats"

----------------------------------------------------------------------------
(* update_progress *)

IncrementedLost(cc) == IF cc = 0 THEN 1 ELSE cc

(* self.checked_count += 1 *)
Incremented(cc) == cc + 1

(* whether update_progress raises after it has incremented checked_count:
   the division by total_count, then the print *)
UpdateProgressRaisesNever(tc, out) == FALSE

UpdateProgressRaises(tc, out) == tc = 0 \/ ~out

(* the exception update_progress raises *)
UpdateProgressError(tc, out) ==
    IF tc = 0 THEN ExceptionObject("ZeroDivisionError") ELSE ExceptionObject("OSError")

----------------------------------------------------------------------------
(* Probe tasks *)

(* a coroutine that has not run yet; bounded marks a bounded_check task of
   check_proxies, as opposed to a check_proxy call made directly *)
NewTask(proxy, bounded) ==
    [proxy |-> proxy, bounded |-> bounded, pc |-> "waiting",
     url |-> <<>>, protocol |-> "", start_time |-> 0,
     pending |-> None, ret |-> None, progress_calls |-> 0, got_200 |-> FALSE]

(* check_proxy up to its first await: the tag, the address, the start time *)
Enter(t) ==
    [t EXCEPT !.pc = "requesting",
              !.protocol = ProtocolOf(t.proxy),
              !.url = NormalizeProxy(t.proxy),
              !.start_time = now]

(* the ProxyStats check_proxy returns when the status is 200 *)
SuccessStats(t) ==
    ProxyStats(t.url, now - t.start_time, t.protocol, now, TRUE)

FailureStatsZeroSpeed(t) ==
    ProxyStats(t.url, 0, t.protocol, now, FALSE)

(* the ProxyStats check_proxy returns after its try block *)
FailureStats(t) ==
    ProxyStats(t.url, Inf, t.protocol, now, FALSE)

(* the truth value of proxy.strip() *)
NonBlankUnstripped(proxy) == proxy # <<>>

NonBlank(proxy) == Strip(proxy) # <<>>

(* the tasks check_proxies creates *)
LaunchTasks(ps) ==
    LET nb == SelectSeq(ps, NonBlank)
    IN  [k \in 1..Len(nb) |-> NewTask(nb[k], TRUE)]

(* total_count as check_proxies sets it *)
TotalCount(ps) == Len(ps)

(* the semaphore's value after acquire and after release *)
SemAcquire(v) == v - 1

SemReleaseLost(v) == v

SemRelease(v) == v + 1

(* acquire does not block *)
SemFreeAlways(v) == TRUE

SemFree(v) == v > 0

Finished(t) == t.pc = "done"

(* asyncio.gather with return_exceptions=True: one entry per task, in
   task order, a returned value or the exception object *)
GatherResults(ts) == [k \in 1..Len(ts) |-> ts[k].ret]

FilterResultsKeepAll(rs) == rs

(* the two assignments to self.results at the end of check_proxies *)
FilterResults(rs) == SelectSeq(rs, IsInstanceProxyStats)

----------------------------------------------------------------------------
(* The file links.txt: missing, unreadable, or read as a list of lines *)

NoFile == [kind |-> "missing", lines |-> <<>>]

(* a line of links.txt is a url or blank *)
LinkFiles ==
    { NoFile,
      [kind |-> "unreadable", lines |-> <<>>],
      [kind |-> "read", lines |-> <<"u1">>],
      [kind |-> "read", lines |-> <<"u1", "", "u2">>] }

LoadFailsOnlyMissing(file) == file.kind = "missing"

(* load_urls_from_file ends in sys.exit(1): FileNotFoundError, or any other
   exception of open() or of reading *)
LoadFails(file) == file.kind # "read"

IsUrl(line) == line # ""

(* the list load_urls_from_file returns: the lines that are not blank *)
LoadedUrls(file) == SelectSeq(file.lines, IsUrl)

----------------------------------------------------------------------------
(* Initial state: a ProxyChecker after __init__ *)

Init ==
    /\ timeout = Timeout
    /\ results = <<>>
    /\ checked_count = 0
    /\ total_count = 0
    /\ proxies = <<>>
    /\ max_concurrent = 0
    /\ semaphore = 0
    /\ tasks = <<>>
    /\ pc = "idle"
    /\ now = 0
    /\ stdout_ok = TRUE
    /\ call = [made |-> FALSE, given |-> FALSE, limit |-> 0]
    /\ best = <<>>
    /\ output_file = <<>>
    /\ progress_out = <<>>
    /\ fetch_pc = "idle"
    /\ fetches = <<>>
    /\ fetched = <<>>
    /\ just_proxy = <<>>
    /\ links_txt = NoFile
    /\ main_pc = "idle"
    /\ exit_status = <<>>

CandidateLists ==
    UNION { [1..n -> Candidates] : n \in 0..MaxProxies }

----------------------------------------------------------------------------
(* check_proxies *)

(* check_proxies up to the await of gather: the counters, the first print,
   the semaphore and the tasks *)
CheckProxies(ps, mc) ==
    /\ pc = "idle"
    /\ proxies' = ps
    /\ max_concurrent' = mc
    /\ total_count' = TotalCount(ps)
    /\ checked_count' = 0
    /\ IF stdout_ok
         THEN /\ semaphore' = mc
              /\ tasks' = LaunchTasks(ps)
              /\ pc' = "gathering"
         ELSE /\ pc' = "raised"
              /\ UNCHANGED <<semaphore, tasks>>
    /\ UNCHANGED <<timeout, results, now, stdout_ok, ranker_vars>>
    /\ UNCHANGED <<progress_out, fetch_vars, just_proxy, main_vars>>

(* bounded_check: the semaphore admits the task, check_proxy starts *)
Admit(i) ==
    /\ pc = "gathering"
    /\ tasks[i].bounded
    /\ tasks[i].pc = "waiting"
    /\ SemFree(semaphore)
    /\ semaphore' = SemAcquire(semaphore)
    /\ tasks' = [tasks EXCEPT ![i] = Enter(tasks[i])]
    /\ UNCHANGED <<checker_vars, proxies, max_concurrent, pc, now, stdout_ok, ranker_vars>>
    /\ UNCHANGED <<progress_out, fetch_vars, just_proxy, main_vars>>

(* the response to session.get arrives before the timeout *)
Respond(i, status) ==
    /\ tasks[i].pc = "requesting"
    /\ now - tasks[i].start_time < timeout
    /\ LET t == tasks[i]
           printed == status = 200 /\ stdout_ok
           raises == UpdateProgressRaises(total_count, stdout_ok)
           stats == SuccessStats(t)
       IN  /\ checked_count' = IF printed THEN Incremented(checked_count) ELSE checked_count
           /\ progress_out' = IF printed /\ ~raises
                                THEN Append(progress_out, checked_count')
                                ELSE progress_out
           /\ tasks' = [tasks EXCEPT
                  ![i].pc = "closing",
                  ![i].got_200 = (status = 200),
                  ![i].progress_calls = IF printed THEN @ + 1 ELSE @,
                  ![i].pending = IF printed /\ ~raises THEN stats ELSE None]
    /\ UNCHANGED <<timeout, results, total_count, proxies, max_concurrent, semaphore,
                   pc, now, stdout_ok, ranker_vars>>
    /\ UNCHANGED <<fetch_vars, just_proxy, main_vars>>

(* session.get raises: the connection is refused, the handshake or the DNS
   lookup fails, or the timeout elapses *)
Fail(i, kind) ==
    /\ tasks[i].pc = "requesting"
    /\ IF kind = "timeout"
         THEN now - tasks[i].start_time >= timeout
         ELSE now - tasks[i].start_time < timeout
    /\ tasks' = [tasks EXCEPT ![i].pc = "closing", ![i].pending = None]
    /\ UNCHANGED <<checker_vars, proxies, max_concurrent, semaphore, pc, now,
                   stdout_ok, ranker_vars>>
    /\ UNCHANGED <<progress_out, fetch_vars, just_proxy, main_vars>>

(* the response and session contexts exit (ok, or with an exception), then
   check_proxy returns or raises; a bounded_check task releases the semaphore *)
Close(i, ok) ==
    /\ tasks[i].pc = "closing"
    /\ LET t == tasks[i]
           returns_pending == ok /\ t.pending # None
           raises == UpdateProgressRaises(total_count, stdout_ok)
           failure == FailureStats(t)
       IN  /\ checked_count' = IF returns_pending THEN checked_count
                                ELSE Incremented(checked_count)
           /\ progress_out' = IF returns_pending \/ raises THEN progress_out
                                ELSE Append(progress_out, checked_count')
           /\ tasks' = [tasks EXCEPT
                  ![i].pc = "done",
                  ![i].pending = None,
                  ![i].progress_calls = IF returns_pending THEN @ ELSE @ + 1,
                  ![i].ret = IF returns_pending THEN t.pending
                             ELSE IF raises
                               THEN UpdateProgressError(total_count, stdout_ok)
                               ELSE failure]
           /\ semaphore' = IF t.bounded THEN SemRelease(semaphore) ELSE semaphore
    /\ UNCHANGED <<timeout, results, total_count, proxies, max_concurrent, pc, now,
                   stdout_ok, ranker_vars>>
    /\ UNCHANGED <<fetch_vars, just_proxy, main_vars>>

(* gather returns when every task has finished; the exceptions are filtered out *)
Gather ==
    /\ pc = "gathering"
    /\ \A i \in 1..Len(tasks) : Finished(tasks[i])
    /\ results' = FilterResults(GatherResults(tasks))
    /\ pc' = "returned"
    /\ UNCHANGED <<timeout, checked_count, total_count, proxies, max_concurrent,
                   semaphore, tasks, now, stdout_ok, ranker_vars>>
    /\ UNCHANGED <<progress_out, fetch_vars, just_proxy, main_vars>>

(* time passes *)
Tick ==
    /\ now < MaxTime
    /\ now' = now + 1
    /\ UNCHANGED <<checker_vars, batch_vars, stdout_ok, ranker_vars>>
    /\ UNCHANGED <<progress_out, fetch_vars, just_proxy, main_vars>>

Statuses == {200, 404}
FailKinds == {"refused", "handshake", "dns", "timeout"}

ProbeStep ==
    \E i \in 1..Len(tasks) :
        \/ \E status \in Statuses : Respond(i, status)
        \/ \E kind \in FailKinds : Fail(i, kind)
        \/ \E ok \in BOOLEAN : Close(i, ok)

Next ==
    \/ \E ps \in CandidateLists, mc \in 1..MaxConcurrent : CheckProxies(ps, mc)
    \/ \E i \in 1..Len(tasks) : Admit(i)
    \/ ProbeStep
    \/ Gather
    \/ Tick

Spec == Init /\ [][Next]_vars

----------------------------------------------------------------------------
(* check_proxy awaited directly on a checker that has run no batch *)

DirectCheckProxy(p) ==
    /\ pc = "idle"
    /\ Len(tasks) < MaxProxies
    /\ tasks' = Append(tasks, Enter(NewTask(p, FALSE)))
    /\ UNCHANGED <<checker_vars, proxies, max_concurrent, semaphore, pc, now,
                   stdout_ok, ranker_vars>>
    /\ UNCHANGED <<progress_out, fetch_vars, just_proxy, main_vars>>

NextDirect ==
    \/ \E p \in Candidates : DirectCheckProxy(p)
    \/ ProbeStep
    \/ Tick

SpecDirect == Init /\ [][NextDirect]_vars

----------------------------------------------------------------------------
(* One probe at a time, over the shapes a candidate string can have *)

ProbeCandidates ==
    { <<"h1">>, <<"http://", "h1">>, <<"socks4://", "h1">>, <<"socks5://", "h2">>,
      <<"SOCKS5://", "h2">>, <<"http://", "socks5://", "h2">>,
      <<"socks5://", "socks4://", "h1">> }

NextProbe ==
    \/ \E p \in ProbeCandidates : CheckProxies(<<p>>, 1)
    \/ \E i \in 1..Len(tasks) : Admit(i)
    \/ ProbeStep
    \/ Gather
    \/ Tick

SpecProbe == Init /\ [][NextProbe]_vars

----------------------------------------------------------------------------
(* The batch when sys.stdout can stop accepting output (a closed pipe) *)

BreakStdout ==
    /\ stdout_ok
    /\ stdout_ok' = FALSE
    /\ UNCHANGED <<checker_vars, batch_vars, now, ranker_vars>>
    /\ UNCHANGED <<progress_out, fetch_vars, just_proxy, main_vars>>

NextStdout ==
    \/ Next
    \/ BreakStdout

SpecStdout == Init /\ [][NextStdout]_vars

----------------------------------------------------------------------------
(* The batch under the event loop's scheduling: a coroutine that can run is
   run, and a request ends (by a response, an error or its timeout) *)

TaskAdmit(i) == i \in DOMAIN tasks /\ Admit(i)

TaskRequestEnds(i) ==
    /\ i \in DOMAIN tasks
    /\ \/ \E status \in Statuses : Respond(i, status)
       \/ \E kind \in FailKinds : Fail(i, kind)

TaskClose(i) == i \in DOMAIN tasks /\ \E ok \in BOOLEAN : Close(i, ok)

Fairness ==
    /\ \A i \in 1..MaxProxies :
          /\ WF_vars(TaskAdmit(i))
          /\ WF_vars(TaskRequestEnds(i))
          /\ WF_vars(TaskClose(i))
    /\ WF_vars(Gather)
    /\ WF_vars(Tick)

(* the candidate strings differ in address only, which no step of the
   scheduling reads: one address and the blank string are enough here *)
FairCandidateLists ==
    UNION { [1..n -> {<<"h1">>, <<Blank>>}] : n \in 0..MaxProxies }

NextFair ==
    \/ \E ps \in FairCandidateLists, mc \in 1..MaxConcurrent : CheckProxies(ps, mc)
    \/ \E i \in 1..Len(tasks) : Admit(i)
    \/ ProbeStep
    \/ Gather
    \/ Tick

SpecFair == Init /\ [][NextFair]_vars /\ Fairness

----------------------------------------------------------------------------
(* The ranker: get_best_proxies and save_working_proxies *)

IsWorkingAny(r) == TRUE

IsWorking(r) == r.is_working

(* x < y on floats, float('inf') being the greatest *)
SpeedLess(x, y) ==
    IF x = Inf THEN FALSE ELSE IF y = Inf THEN TRUE ELSE x < y

(* r goes before the first element of the sorted s whose key is greater *)
RECURSIVE Insert(_, _)
Insert(r, s) ==
    IF s = <<>> THEN <<r>>
    ELSE IF SpeedLess(r.speed, Head(s).speed) THEN <<r>> \o s
    ELSE <<Head(s)>> \o Insert(r, Tail(s))

RECURSIVE InsertAll(_, _)
InsertAll(rs, acc) ==
    IF rs = <<>> THEN acc ELSE InsertAll(Tail(rs), Insert(Head(rs), acc))

SortedUnsorted(rs) == rs

(* sorted(rs, key=lambda x: x.speed): ascending and stable *)
Sorted(rs) == InsertAll(rs, <<>>)

Min(a, b) == IF a <= b THEN a ELSE b
Max(a, b) == IF a >= b THEN a ELSE b

(* s[:limit] *)
SliceTo(s, limit) ==
    IF limit >= 0 THEN SubSeq(s, 1, Min(limit, Len(s)))
    ELSE SubSeq(s, 1, Max(0, Len(s) + limit))

(* the truth value of limit: None and 0 are false *)
Truthy(given, limit) == given /\ limit # 0

(* get_best_proxies(limit); given is FALSE when limit is None *)
BestProxies(rs, given, limit) ==
    LET working_proxies == SelectSeq(rs, IsWorking)
        sorted_proxies == Sorted(working_proxies)
    IN  IF Truthy(given, limit) THEN SliceTo(sorted_proxies, limit) ELSE sorted_proxies

Urls(rs) == [k \in 1..Len(rs) |-> rs[k].url]

ResultsSortedInPlace(rs) == Sorted(rs)

(* self.results after get_best_proxies: the comprehension and sorted() build
   new lists, the slice copies; nothing is assigned to self.results *)
ResultsAfterBest(rs) == rs

GetBestProxies(limit) ==
    /\ pc = "returned"
    /\ call' = [made |-> TRUE, given |-> TRUE, limit |-> limit]
    /\ best' = BestProxies(results, TRUE, limit)
    /\ results' = ResultsAfterBest(results)
    /\ UNCHANGED <<timeout, checked_count, total_count, batch_vars, now, stdout_ok,
                   output_file>>
    /\ UNCHANGED <<progress_out, fetch_vars, just_proxy, main_vars>>

GetBestProxiesAll ==
    /\ pc = "returned"
    /\ call' = [made |-> TRUE, given |-> FALSE, limit |-> 0]
    /\ best' = BestProxies(results, FALSE, 0)
    /\ results' = ResultsAfterBest(results)
    /\ UNCHANGED <<timeout, checked_count, total_count, batch_vars, now, stdout_ok,
                   output_file>>
    /\ UNCHANGED <<progress_out, fetch_vars, just_proxy, main_vars>>

(* save_working_proxies: get_best_proxies(), then one url per line *)
SaveWorkingProxies ==
    /\ pc = "returned"
    /\ call' = [made |-> TRUE, given |-> FALSE, limit |-> 0]
    /\ best' = BestProxies(results, FALSE, 0)
    /\ output_file' = Urls(best')
    /\ results' = ResultsAfterBest(results)
    /\ UNCHANGED <<timeout, checked_count, total_count, batch_vars, now, stdout_ok>>
    /\ UNCHANGED <<progress_out, fetch_vars, just_proxy, main_vars>>

(* the records a batch can leave in self.results *)
RankRecords ==
    { ProxyStats(NormalizeProxy(c), sp, ProtocolOf(c), 0, sp # Inf) :
        c \in { d \in Candidates : NonBlank(d) }, sp \in (0..MaxTime) \cup {Inf} }

InitRank ==
    /\ timeout = Timeout
    /\ results \in UNION { [1..n -> RankRecords] : n \in 0..MaxResults }
    /\ checked_count = Len(results)
    /\ total_count = Len(results)
    /\ proxies = <<>>
    /\ max_concurrent = 1
    /\ semaphore = 1
    /\ tasks = <<>>
    /\ pc = "returned"
    /\ now = 0
    /\ stdout_ok = TRUE
    /\ call = [made |-> FALSE, given |-> FALSE, limit |-> 0]
    /\ best = <<>>
    /\ output_file = <<>>
    /\ progress_out = <<>>
    /\ fetch_pc = "idle"
    /\ fetches = <<>>
    /\ fetched = <<>>
    /\ just_proxy = <<>>
    /\ links_txt = NoFile
    /\ main_pc = "idle"
    /\ exit_status = <<>>

NextRank ==
    \/ \E limit \in (-1)..MaxLimit : GetBestProxies(limit)
    \/ GetBestProxiesAll
    \/ SaveWorkingProxies

SpecRank == InitRank /\ [][NextRank]_vars

----------------------------------------------------------------------------
(* The list fetcher: fetch_proxy_lists and fetch_single_list *)

NL == "\n"

(* the text of a response: tokens of candidate strings and newlines *)
Contents ==
    { <<"h1", NL, "socks5://", "h2", NL>>,
      <<Blank, "h1", NL, NL, "h3">>,
      <<>> }

IsSpace(tok) == tok \in {Blank, NL}

(* content.strip() *)
RECURSIVE LStripText(_)
LStripText(s) ==
    IF s # <<>> /\ IsSpace(Head(s)) THEN LStripText(Tail(s)) ELSE s

RECURSIVE RStripText(_)
RStripText(s) ==
    IF s # <<>> /\ IsSpace(s[Len(s)])
      THEN RStripText(SubSeq(s, 1, Len(s) - 1)) ELSE s

StripText(s) == RStripText(LStripText(s))

(* s.split('\n'): cur is the piece being read, acc the pieces read *)
RECURSIVE SplitFrom(_, _, _)
SplitFrom(s, cur, acc) ==
    IF s = <<>> THEN Append(acc, cur)
    ELSE IF Head(s) = NL THEN SplitFrom(Tail(s), <<>>, Append(acc, cur))
    ELSE SplitFrom(Tail(s), Append(cur, Head(s)), acc)

SplitLines(s) == SplitFrom(s, <<>>, <<>>)

(* what a request to a source ends with *)
FetchOutcomes ==
    { [kind |-> "response", status |-> st, content |-> c] :
        st \in {200, 500}, c \in Contents }
    \cup { [kind |-> k, status |-> 0, content |-> <<>>] : k \in {"error", "timeout"} }

NoOutcome == [kind |-> "none", status |-> 0, content |-> <<>>]

ListValue(lines) == [type |-> "list", lines |-> lines]

NoneValue == [type |-> "NoneType", lines |-> <<>>]

FetchSingleListAnyStatus(o) ==
    IF o.kind = "response" THEN ListValue(SplitLines(StripText(o.content)))
    ELSE ListValue(<<>>)

(* the value fetch_single_list returns: the lines of a 200 response, an
   empty list after an exception, None after another status *)
FetchSingleList(o) ==
    IF o.kind = "response"
      THEN IF o.status = 200 THEN ListValue(SplitLines(StripText(o.content)))
           ELSE NoneValue
      ELSE ListValue(<<>>)

NewFetch(url) ==
    [url |-> url, pc |-> "requesting", served |-> NoOutcome, ret |-> NoneValue]

IsList(r) == r.type = "list"

(* proxy_lists: the results that are lists, extended one after another *)
RECURSIVE ProxyLists(_)
ProxyLists(rs) ==
    IF rs = <<>> THEN <<>>
    ELSE (IF IsList(Head(rs)) THEN Head(rs).lines ELSE <<>>) \o ProxyLists(Tail(rs))

ListOfSetNoDedup(ls) == {ls}

(* list(set(ls)): the distinct elements, in an order the hash table decides *)
ListOfSet(ls) ==
    LET S == {ls[k] : k \in 1..Len(ls)}
    IN  { q \in [1..Cardinality(S) -> S] : \A x \in S : \E k \in DOMAIN q : q[k] = x }

Urls2 == {"u1", "u2"}

UrlLists == UNION { [1..n -> Urls2] : n \in 0..MaxUrls }

(* fetch_proxy_lists up to the await of gather *)
FetchProxyLists(urls) ==
    /\ fetch_pc = "idle"
    /\ fetches' = [k \in 1..Len(urls) |-> NewFetch(urls[k])]
    /\ fetch_pc' = "gathering"
    /\ UNCHANGED <<checker_vars, batch_vars, now, stdout_ok, ranker_vars,
                   progress_out, fetched, just_proxy, main_vars>>

(* fetch_single_list runs to its end: the request is answered or fails *)
FetchEnds(i, o) ==
    /\ fetch_pc = "gathering"
    /\ fetches[i].pc = "requesting"
    /\ fetches' = [fetches EXCEPT ![i].pc = "done",
                                  ![i].served = o,
                                  ![i].ret = FetchSingleList(o)]
    /\ UNCHANGED <<checker_vars, batch_vars, now, stdout_ok, ranker_vars,
                   progress_out, fetch_pc, fetched, just_proxy, main_vars>>

(* gather returns; the lists are merged and deduplicated *)
FetchReturn ==
    /\ fetch_pc = "gathering"
    /\ \A i \in 1..Len(fetches) : fetches[i].pc = "done"
    /\ \E q \in ListOfSet(ProxyLists([k \in 1..Len(fetches) |-> fetches[k].ret])) :
          fetched' = q
    /\ fetch_pc' = "returned"
    /\ UNCHANGED <<checker_vars, batch_vars, now, stdout_ok, ranker_vars,
                   progress_out, fetches, just_proxy, main_vars>>

NextFetch ==
    \/ \E urls \in UrlLists : FetchProxyLists(urls)
    \/ \E i \in 1..Len(fetches), o \in FetchOutcomes : FetchEnds(i, o)
    \/ FetchReturn

SpecFetch == Init /\ [][NextFetch]_vars

----------------------------------------------------------------------------
(* save_all_unique_proxies *)

SchemeTokens ==
    {"http://", "socks4://", "socks5://", "HTTP://", "SOCKS4://", "SOCKS5://"}

(* '://' in proxy *)
HasSeparator(s) == \E k \in 1..Len(s) : s[k] \in SchemeTokens

(* proxy.split('://')[-1]: what follows the last '://' *)
AfterLastSeparator(s) ==
    LET last == CHOOSE k \in 1..Len(s) :
                    /\ s[k] \in SchemeTokens
                    /\ \A j \in (k + 1)..Len(s) : s[j] \notin SchemeTokens
    IN  SubSeq(s, last + 1, Len(s))

(* the string one candidate adds to unique_proxies *)
DumpEntry(proxy) ==
    LET p == Strip(proxy)
    IN  IF HasSeparator(p) THEN AfterLastSeparator(p) ELSE p

(* unique_proxies after the loop: blank candidates are skipped *)
UniqueProxies(ps) ==
    { DumpEntry(ps[k]) : k \in { j \in 1..Len(ps) : Strip(ps[j]) # <<>> } }

(* the place of a token in the order of Python strings (code points): the
   space, then upper case, then digits after letters within a host name *)
TokenRank(tok) ==
    CASE tok = Blank       -> 0
      [] tok = "HTTP://"   -> 1
      [] tok = "SOCKS4://" -> 2
      [] tok = "SOCKS5://" -> 3
      [] tok = "h1"        -> 4
      [] tok = "h2"        -> 5
      [] tok = "h3"        -> 6
      [] tok = "http://"   -> 7
      [] tok = "socks4://" -> 8
      [] tok = "socks5://" -> 9

(* a < b on strings; no token is a prefix of another token *)
RECURSIVE StrLess(_, _)
StrLess(a, b) ==
    IF b = <<>> THEN FALSE
    ELSE IF a = <<>> THEN TRUE
    ELSE IF Head(a) = Head(b) THEN StrLess(Tail(a), Tail(b))
    ELSE TokenRank(Head(a)) < TokenRank(Head(b))

(* sorted(unique_proxies) *)
RECURSIVE SortedStrings(_)
SortedStrings(S) ==
    IF S = {} THEN <<>>
    ELSE LET m == CHOOSE x \in S : \A y \in S \ {x} : StrLess(x, y)
         IN  <<m>> \o SortedStrings(S \ {m})

(* the lines written to just_proxy.txt *)
DumpLines(ps) == SortedStrings(UniqueProxies(ps))

SaveAllUniqueProxies(ps) ==
    /\ just_proxy' = <<[proxies |-> ps, lines |-> DumpLines(ps)]>>
    /\ UNCHANGED <<checker_vars, batch_vars, now, stdout_ok, ranker_vars,
                   progress_out, fetch_vars, main_vars>>

(* the candidate strings a fetched list can hold *)
DumpCandidates ==
    { <<"h1">>, <<"h2">>, <<>>, <<Blank>>, <<Blank, "h3", Blank>>,
      <<"http://", "h1">>, <<"socks5://", "h1">>, <<"socks4://", "h2">>,
      <<"SOCKS5://", "h3">>, <<"http://", "socks5://", "h2">>, <<"http://">> }

DumpLists == UNION { [1..n -> DumpCandidates] : n \in 0..MaxProxies }

NextDump == \E ps \in DumpLists : SaveAllUniqueProxies(ps)

SpecDump == Init /\ [][NextDump]_vars

----------------------------------------------------------------------------
(* main: load, fetch, dump, check, report.  load_urls_from_file and
   save_all_unique_proxies do not await, so each runs within the step of
   the call that follows it. *)

(* check_proxies, max_concurrent: int = 1000 *)
DefaultMaxConcurrent == 1000

(* get_best_proxies(10) *)
TopCount == 10

(* what a source answers in a run of main *)
MainOutcomes ==
    { [kind |-> "response", status |-> 200,
       content |-> <<"h1", NL, "socks5://", "h2", NL>>],
      [kind |-> "response", status |-> 500, content |-> <<"h3">>],
      [kind |-> "error", status |-> 0, content |-> <<>>] }

InitMain ==
    /\ timeout = Timeout
    /\ results = <<>>
    /\ checked_count = 0
    /\ total_count = 0
    /\ proxies = <<>>
    /\ max_concurrent = 0
    /\ semaphore = 0
    /\ tasks = <<>>
    /\ pc = "idle"
    /\ now = 0
    /\ stdout_ok = TRUE
    /\ call = [made |-> FALSE, given |-> FALSE, limit |-> 0]
    /\ best = <<>>
    /\ output_file = <<>>
    /\ progress_out = <<>>
    /\ fetch_pc = "idle"
    /\ fetches = <<>>
    /\ fetched = <<>>
    /\ just_proxy = <<>>
    /\ links_txt \in LinkFiles
    /\ main_pc = "start"
    /\ exit_status = <<>>

(* main up to its first suspension: the urls are loaded, or the process
   exits with status 1; fetch_proxy_lists starts the fetches *)
MainStart ==
    /\ main_pc = "start"
    /\ IF LoadFails(links_txt)
         THEN /\ main_pc' = "exited"
              /\ exit_status' = <<1>>
              /\ UNCHANGED <<fetch_pc, fetches>>
         ELSE /\ main_pc' = "fetching"
              /\ fetches' = [k \in 1..Len(LoadedUrls(links_txt)) |->
                                NewFetch(LoadedUrls(links_txt)[k])]
              /\ fetch_pc' = "gathering"
              /\ UNCHANGED exit_status
    /\ UNCHANGED <<checker_vars, batch_vars, now, stdout_ok, ranker_vars,
                   progress_out, fetched, just_proxy, links_txt>>

(* fetch_proxy_lists has returned: the dump is written, then check_proxies
   runs up to the await of gather *)
MainVerify ==
    /\ main_pc = "fetching"
    /\ fetch_pc = "returned"
    /\ just_proxy' = <<[proxies |-> fetched, lines |-> DumpLines(fetched)]>>
    /\ proxies' = fetched
    /\ max_concurrent' = DefaultMaxConcurrent
    /\ total_count' = TotalCount(fetched)
    /\ checked_count' = 0
    /\ semaphore' = DefaultMaxConcurrent
    /\ tasks' = LaunchTasks(fetched)
    /\ pc' = "gathering"
    /\ main_pc' = "checking"
    /\ UNCHANGED <<timeout, results, now, stdout_ok, ranker_vars, progress_out,
                   fetch_vars, links_txt, exit_status>>

(* check_proxies has returned: save_working_proxies, get_best_proxies(10),
   the summary; asyncio.run returns and the process exits with status 0 *)
MainReport ==
    /\ main_pc = "checking"
    /\ pc = "returned"
    /\ output_file' = Urls(BestProxies(results, FALSE, 0))
    /\ call' = [made |-> TRUE, given |-> TRUE, limit |-> TopCount]
    /\ best' = BestProxies(results, TRUE, TopCount)
    /\ results' = ResultsAfterBest(results)
    /\ main_pc' = "exited"
    /\ exit_status' = <<0>>
    /\ UNCHANGED <<timeout, checked_count, total_count, batch_vars, now, stdout_ok,
                   progress_out, fetch_vars, just_proxy, links_txt>>

NextMain ==
    \/ MainStart
    \/ \E i \in 1..Len(fetches), o \in MainOutcomes : FetchEnds(i, o)
    \/ FetchReturn
    \/ MainVerify
    \/ \E i \in 1..Len(tasks) : Admit(i)
    \/ ProbeStep
    \/ Gather
    \/ Tick
    \/ MainReport

SpecMain == InitMain /\ [][NextMain]_vars

----------------------------------------------------------------------------
(* Properties *)

TaskIds == 1..Len(tasks)

(* a candidate is non-blank when some token of it is not whitespace *)
HasVisibleToken(p) == \E k \in 1..Len(p) : p[k] # Blank

NonBlankCandidates == SelectSeq(proxies, HasVisibleToken)

Active(i) == tasks[i].pc \in {"requesting", "closing"}

Returned(i) == tasks[i].pc = "done" /\ tasks[i].ret.type = "ProxyStats"

Raised(i) == tasks[i].pc = "done" /\ tasks[i].ret.type \notin {"ProxyStats", "None"}

(* C1: when check_proxies has returned, self.results holds exactly one
   ProxyStats per non-blank candidate of the list, in the list's order: its
   length is the number of non-blank candidates and its k-th record is the
   record of the k-th non-blank candidate. *)
C1_OneResultPerCandidate ==
    pc = "returned" =>
        /\ Len(results) = Len(NonBlankCandidates)
        /\ \A k \in 1..Len(results) :
              /\ results[k].type = "ProxyStats"
              /\ results[k].url = NormalizeProxy(NonBlankCandidates[k])

C1_Witness ==
    /\ pc = "returned"
    /\ Len(proxies) > Len(NonBlankCandidates)
    /\ Len(results) >= 1

(* C2: at every moment of a batch the number of probes inside check_proxy
   (admitted and not yet returned) is at most max_concurrent, the semaphore
   counts the free slots, and a probe still waiting for admission has not
   started check_proxy: it has no address, no connection and no progress call. *)
C2_ConcurrencyCap ==
    pc = "gathering" =>
        /\ Cardinality({i \in TaskIds : Active(i)}) <= max_concurrent
        /\ semaphore = max_concurrent - Cardinality({i \in TaskIds : Active(i)})
        /\ \A i \in TaskIds :
              tasks[i].pc = "waiting" =>
                  tasks[i].url = <<>> /\ tasks[i].progress_calls = 0

C2_Witness ==
    /\ pc = "gathering"
    /\ Cardinality({i \in TaskIds : Active(i)}) = max_concurrent
    /\ \E i \in TaskIds : tasks[i].pc = "waiting"

(* C3: every ProxyStats a probe returns, and every record of self.results,
   has is_working true exactly when its speed is finite and is_working false
   exactly when its speed is the infinite sentinel. *)
C3_WorkingIffFinite ==
    /\ \A i \in TaskIds :
          Returned(i) => (tasks[i].ret.is_working <=> tasks[i].ret.speed # Inf)
    /\ \A k \in 1..Len(results) :
          results[k].is_working <=> results[k].speed # Inf

C3_Witness ==
    /\ pc = "returned"
    /\ \E k \in 1..Len(results) : results[k].is_working /\ results[k].speed # Inf
    /\ \E k \in 1..Len(results) : ~results[k].is_working /\ results[k].speed = Inf

(* C4: check_proxy always ends by returning a ProxyStats, never by raising,
   also on a checker whose total_count is 0. *)
C4_NeverRaises ==
    \A i \in TaskIds : tasks[i].pc = "done" => tasks[i].ret.type = "ProxyStats"

(* C5: every finished execution of check_proxy has called update_progress
   exactly once. *)
C5_ProgressExactlyOnce ==
    \A i \in TaskIds : tasks[i].pc = "done" => tasks[i].progress_calls = 1

(* C6: total_count, once the batch has started, is the number of tasks
   launched, which is the number of non-blank candidates; and checked_count
   equals total_count when the batch has returned. *)
C6_TotalCountIsTaskCount ==
    /\ pc \in {"gathering", "returned"} =>
          /\ total_count = Len(tasks)
          /\ Len(tasks) = Len(NonBlankCandidates)
    /\ pc = "returned" => checked_count = total_count

(* C7: under the event loop's scheduling, every probe waiting on the
   semaphore is eventually admitted, a started check_proxies eventually
   returns, and it has returned only when every launched probe has finished. *)
C7_EveryProbeAdmittedAndBatchReturns ==
    /\ \A i \in 1..MaxProxies :
          (i \in DOMAIN tasks /\ tasks[i].pc = "waiting")
              ~> (i \in DOMAIN tasks /\ tasks[i].pc # "waiting")
    /\ (pc = "gathering") ~> (pc = "returned")
    /\ [](pc = "returned" => \A i \in TaskIds : tasks[i].pc = "done")

C7_Witness ==
    /\ pc = "returned"
    /\ Len(tasks) > max_concurrent

(* the number of tasks up to the i-th that returned a ProxyStats *)
ReturnedUpTo(i) == Cardinality({j \in 1..i : Returned(j)})

(* C8: a batch whose tasks have started does not end by raising; when it
   has returned, self.results holds only ProxyStats records, and the value
   each task returned is in it, unchanged and in task order, whether or not
   other tasks raised. *)
C8_TaskFailuresFiltered ==
    /\ pc = "raised" => tasks = <<>>
    /\ pc = "returned" =>
          /\ \A k \in 1..Len(results) : results[k].type = "ProxyStats"
          /\ Len(results) = ReturnedUpTo(Len(tasks))
          /\ \A i \in TaskIds :
                Returned(i) => results[ReturnedUpTo(i)] = tasks[i].ret

C8_Witness ==
    /\ pc = "returned"
    /\ \E i \in TaskIds : Raised(i)
    /\ \E i \in TaskIds : Returned(i)
    /\ Len(results) >= 1

(* C9: get_best_proxies(limit) with a limit >= 0 returns the first limit
   elements of the sorted working results, min(limit, number of working
   results) of them. *)
C9_LimitGivesPrefix ==
    (call.made /\ call.given /\ call.limit >= 0) =>
        LET full == Sorted(SelectSeq(results, IsWorking))
        IN  /\ Len(best) = Min(call.limit, Len(full))
            /\ best = SubSeq(full, 1, Len(best))

(* how many times r occurs in s *)
Count(r, s) == Cardinality({k \in 1..Len(s) : s[k] = r})

Range(s) == {s[k] : k \in 1..Len(s)}

(* C10: get_best_proxies() returns exactly the records of self.results
   whose is_working is true, each as many times as it occurs there and no
   other record, with speed non-decreasing from first to last. *)
C10_WorkingSortedBySpeed ==
    (call.made /\ ~call.given) =>
        /\ \A r \in Range(results) \cup Range(best) :
              Count(r, best) = IF r.is_working THEN Count(r, results) ELSE 0
        /\ \A i, j \in 1..Len(best) : i < j => best[i].speed <= best[j].speed

C10_Witness ==
    /\ call.made /\ ~call.given
    /\ Len(best) >= 2
    /\ Len(best) < Len(results)
    /\ best # SelectSeq(results, IsWorking)

FetchIds == 1..Len(fetches)

Succeeded(i) == fetches[i].served.kind = "response" /\ fetches[i].served.status = 200

(* the lines of a text: the maximal newline-free pieces of the text without
   the whitespace at its two ends (the empty text has one empty line) *)
TextLines(c) ==
    LET vis == {k \in 1..Len(c) : c[k] # Blank /\ c[k] # NL}
        t == IF vis = {} THEN <<>>
             ELSE SubSeq(c, CHOOSE a \in vis : \A k \in vis : a <= k,
                            CHOOSE b \in vis : \A k \in vis : k <= b)
    IN  { SubSeq(t, p[1], p[2]) : p \in
            { q \in (1..(Len(t) + 1)) \X (0..Len(t)) :
                /\ q[1] <= q[2] + 1
                /\ q[1] = 1 \/ t[q[1] - 1] = NL
                /\ q[2] = Len(t) \/ t[q[2] + 1] = NL
                /\ \A k \in q[1]..q[2] : t[k] # NL } }

(* C11: when fetch_proxy_lists has returned, no fetch has ended with an
   exception object, every source that failed (exception, timeout, status
   other than 200) has contributed nothing, and every line of every source
   answered with status 200 is in the returned list. *)
C11_FailingSourcesContributeNothing ==
    /\ \A i \in FetchIds :
          fetches[i].pc = "done" =>
              /\ fetches[i].ret.type \in {"list", "NoneType"}
              /\ ~Succeeded(i) => fetches[i].ret.lines = <<>>
    /\ fetch_pc = "returned" =>
          /\ \A i \in FetchIds :
                Succeeded(i) =>
                    \A l \in TextLines(fetches[i].served.content) :
                        \E k \in 1..Len(fetched) : fetched[k] = l
          /\ \A k \in 1..Len(fetched) :
                \E i \in FetchIds :
                    Succeeded(i) /\ fetched[k] \in TextLines(fetches[i].served.content)

C11_Witness ==
    /\ fetch_pc = "returned"
    /\ \E i \in FetchIds :
          \/ fetches[i].served.kind = "timeout"
          \/ fetches[i].served.status = 500 /\ fetches[i].served.content # <<>>
    /\ \E i \in FetchIds : Succeeded(i) /\ Len(fetched) >= 2

(* the texts of the sources answered with status 200, as a set *)
SucceededTexts == { fetches[i].served.content : i \in { j \in FetchIds : Succeeded(j) } }

(* C12: the list fetch_proxy_lists returns holds no string twice and, as a
   set, is the union of the lines of the texts fetched with success; the
   union is taken over the set of those texts, so it is the same however
   often and in whatever order a source is listed. *)
C12_DedupedUnionOfLines ==
    fetch_pc = "returned" =>
        /\ \A j, k \in 1..Len(fetched) : j # k => fetched[j] # fetched[k]
        /\ {fetched[k] : k \in 1..Len(fetched)} = UNION { TextLines(c) : c \in SucceededTexts }

C12_Witness ==
    /\ fetch_pc = "returned"
    /\ \E i, j \in FetchIds :
          /\ i # j
          /\ fetches[i].url = fetches[j].url
          /\ Succeeded(i) /\ Succeeded(j)
          /\ fetches[i].served.content = fetches[j].served.content
    /\ Len(fetched) >= 2

(* the scheme prefix a candidate string starts with, "" when it has none *)
SchemePrefix(raw) ==
    IF raw # <<>> /\ raw[1] \in {"http://", "socks4://", "socks5://"} THEN raw[1] ELSE ""

(* C13: a probe that has started carries the tag socks5 for a socks5://
   address, socks4 for a socks4:// address and http otherwise, and its
   address is the raw string when that has a scheme prefix and http://
   followed by the raw string when it has none. *)
C13_TagAndAddressFromPrefix ==
    \A i \in TaskIds :
        tasks[i].pc # "waiting" =>
            LET raw == tasks[i].proxy
            IN  /\ tasks[i].protocol =
                      (CASE SchemePrefix(raw) = "socks5://" -> "socks5"
                         [] SchemePrefix(raw) = "socks4://" -> "socks4"
                         [] OTHER -> "http")
                /\ tasks[i].url =
                      (IF SchemePrefix(raw) # "" THEN raw ELSE <<"http://">> \o raw)

(* C14: a probe returns is_working = true exactly when its GET was answered
   with status 200 before the timeout. *)
C14_WorkingIffStatus200InTime ==
    \A i \in TaskIds :
        Returned(i) => (tasks[i].ret.is_working <=> tasks[i].got_200)

(* C19: the address in a returned ProxyStats starts with the scheme its
   protocol tag names. *)
C19_TagAgreesWithAddressScheme ==
    \A i \in TaskIds :
        Returned(i) =>
            /\ tasks[i].ret.url # <<>>
            /\ tasks[i].ret.url[1] =
                  (CASE tasks[i].ret.protocol = "socks5" -> "socks5://"
                     [] tasks[i].ret.protocol = "socks4" -> "socks4://"
                     [] OTHER -> "http://")

(* the number of update_progress calls made so far by the first n tasks *)
RECURSIVE ProgressCallsUpTo(_)
ProgressCallsUpTo(n) ==
    IF n = 0 THEN 0 ELSE tasks[n].progress_calls + ProgressCallsUpTo(n - 1)

(* C17: in one batch, whatever the order in which the probes complete,
   checked_count equals the number of update_progress calls made so far,
   and the k-th printed progress value is k, the checked_count of the
   completion that printed it. *)
C17_NoLostProgressUpdate ==
    /\ checked_count = ProgressCallsUpTo(Len(tasks))
    /\ progress_out = [k \in 1..checked_count |-> k]

C17_Witness ==
    /\ Len(tasks) = 2
    /\ tasks[2].pc = "done" /\ tasks[2].progress_calls >= 1
    /\ tasks[1].pc = "closing" /\ tasks[1].progress_calls = 1
    /\ checked_count >= 2
    /\ progress_out = [k \in 1..checked_count |-> k]

(* C16: a call of get_best_proxies, with or without a limit, leaves
   self.results as it was: the same records in the same order. *)
C16_ResultsUnchangedByBest ==
    [][(call'.made /\ <<call, best>>' # <<call, best>>) => results' = results]_vars

C16_Witness ==
    /\ call.made /\ call.given /\ call.limit = 1
    /\ Len(results) >= 2
    /\ results # Sorted(results)
    /\ SelectSeq(results, IsWorking) # results
    /\ Len(best) = 1

(* a string without the scheme prefix it starts with, if it has one *)
WithoutSchemePrefix(s) ==
    IF s # <<>> /\ s[1] \in SchemeTokens THEN Tail(s) ELSE s

(* C18: the lines of just_proxy.txt are exactly the non-blank candidates,
   surrounding whitespace and scheme prefix removed, each distinct value
   once, in ascending lexicographic order. *)
C18_DumpIsSortedSetWithoutPrefix ==
    just_proxy # <<>> =>
        LET d == just_proxy[1]
            kept == { k \in 1..Len(d.proxies) : Strip(d.proxies[k]) # <<>> }
        IN  /\ Range(d.lines) = { WithoutSchemePrefix(Strip(d.proxies[k])) : k \in kept }
            /\ \A j, k \in 1..Len(d.lines) : j < k => StrLess(d.lines[j], d.lines[k])

(* C15: when links.txt is missing or unreadable, the run ends with exit
   status 1 at its first step, and in that run no source is fetched, no
   dump is written and no probe is created. *)
C15_NoLinksFileExitsBeforeAnyWork ==
    (links_txt.kind \in {"missing", "unreadable"} /\ main_pc # "start") =>
        /\ main_pc = "exited" /\ exit_status = <<1>>
        /\ fetch_pc = "idle" /\ fetches = <<>> /\ fetched = <<>>
        /\ just_proxy = <<>>
        /\ pc = "idle" /\ tasks = <<>>

C15_Witness ==
    /\ links_txt.kind = "unreadable"
    /\ main_pc = "exited"
    /\ exit_status = <<1>>

(* C20: from the start of a batch on, 0 <= checked_count <= total_count,
   so the percentage update_progress prints is at most 100. *)
C20_CheckedCountWithinTotal ==
    pc \in {"gathering", "returned"} =>
        /\ 0 <= checked_count
        /\ checked_count <= total_count

====
